---- MODULE Spec2Model ----
(***************************************************************************)
(* RealTimeAnalytics (Level-06/Level-6.py): a fixed-window accumulator of  *)
(* prices and simple returns with running sums, and the three queries      *)
(* mean_price, volatility and sharpe.                                      *)
(*                                                                         *)
(* Numbers.  A float is modelled by an exact rational <<n, d>> in lowest   *)
(* terms with d > 0.  A query result is a record [nan, coef, rad] that     *)
(* stands for NaN when nan is TRUE and for coef * sqrt(rad) otherwise, so  *)
(* that np.sqrt needs no approximation.  Rounding is modelled where it     *)
(* decides a branch: the test vol != 0 of sharpe on a window of zero       *)
(* returns is evaluated in binary64 (see excess_is_flat_residue); resid    *)
(* marks a result that is coef * sqrt(rad) divided by the nonzero rounding *)
(* residue binary64 leaves in place of an exact 0.  Prices are integers,   *)
(* so sums of prices and the return of a repeated price are exact in       *)
(* binary64 as well.                                                       *)
(***************************************************************************)
EXTENDS Integers, Sequences, FiniteSets, TLC

\* ---------------------------------------------------------------- bounds
MaxWindow == 3
MaxUpdates == 5
MaxPrice == 3
MaxFlatWindow == 13
MaxFlatUpdates == 14
MaxStream == 4

Windows == 1..MaxWindow
Prices == 1..MaxPrice
FlatWindows == 2..MaxFlatWindow
EdgeWindows == 0..MaxWindow
EdgePrices == (0 - 1)..1

\* ----------------------------------------------------- program constants
TradingDays == 252
DefaultRiskFree == <<1, 50>>
RiskFrees == {DefaultRiskFree, <<0, 1>>, <<1, 20>>}

\* ------------------------------------------------------------- rationals
Abs(i) == IF i < 0 THEN -i ELSE i

Min(a, b) == IF a < b THEN a ELSE b

RECURSIVE GCD(_, _)
GCD(a, b) == IF b = 0 THEN a ELSE GCD(b, a % b)

Norm(n, d) ==
    LET s == IF d < 0 THEN -1 ELSE 1
        g == GCD(Abs(n), Abs(d))
    IN  <<(s * n) \div g, (s * d) \div g>>

Rat(i) == <<i, 1>>
Zero == Rat(0)
One == Rat(1)

RAdd(a, b) ==
    LET l == (a[2] \div GCD(a[2], b[2])) * b[2]
    IN  Norm(a[1] * (l \div a[2]) + b[1] * (l \div b[2]), l)

RNeg(a) == <<-a[1], a[2]>>

RSub(a, b) == RAdd(a, RNeg(b))

RMul(a, b) ==
    LET g1 == GCD(Abs(a[1]), b[2])
        g2 == GCD(Abs(b[1]), a[2])
    IN  Norm((a[1] \div g1) * (b[1] \div g2), (a[2] \div g2) * (b[2] \div g1))

RInv(a) == IF a[1] < 0 THEN <<-a[2], -a[1]>> ELSE <<a[2], a[1]>>

RDiv(a, b) == RMul(a, RInv(b))

\* ----------------------------------------------------------- query values
NaN == [nan |-> TRUE, coef |-> Zero, rad |-> One, resid |-> FALSE]

Num(c, r) == [nan |-> FALSE, coef |-> c, rad |-> r, resid |-> FALSE]

OverResidue(c, r) == [nan |-> FALSE, coef |-> c, rad |-> r, resid |-> TRUE]

IsZero(x) == ~x.nan /\ ~x.resid /\ (x.coef = Zero \/ x.rad = Zero)

\* --------------------------------------------------------------- binary64
\* natural numbers as sequences of 15-bit limbs, least significant first
LimbBits == 15
Base == 32768

Pow2(k) == <<1, 2, 4, 8, 16, 32, 64, 128, 256, 512, 1024, 2048, 4096, 8192,
             16384, 32768>>[k + 1]

RECURSIVE LTrim(_)
LTrim(x) ==
    IF x = <<>> THEN <<>>
    ELSE IF x[Len(x)] # 0 THEN x
    ELSE LTrim(SubSeq(x, 1, Len(x) - 1))

RECURSIVE LFromInt(_)
LFromInt(k) == IF k = 0 THEN <<>> ELSE <<k % Base>> \o LFromInt(k \div Base)

RECURSIVE LAddC(_, _, _)
LAddC(a, b, c) ==
    IF a = <<>> /\ b = <<>>
    THEN IF c = 0 THEN <<>> ELSE <<c>>
    ELSE LET x == IF a = <<>> THEN 0 ELSE a[1]
             y == IF b = <<>> THEN 0 ELSE b[1]
             t == x + y + c
         IN  <<t % Base>> \o LAddC(IF a = <<>> THEN a ELSE Tail(a),
                                  IF b = <<>> THEN b ELSE Tail(b), t \div Base)

LAdd(a, b) == LAddC(a, b, 0)

RECURSIVE LMulC(_, _, _)
LMulC(a, k, c) ==
    IF a = <<>>
    THEN IF c = 0 THEN <<>> ELSE <<c>>
    ELSE LET t == a[1] * k + c
         IN  <<t % Base>> \o LMulC(Tail(a), k, t \div Base)

\* x * 2^k
LShl(x, k) ==
    IF x = <<>> THEN <<>>
    ELSE [i \in 1..(k \div LimbBits) |-> 0] \o LMulC(x, Pow2(k % LimbBits), 0)

\* long division of x by the small integer n, most significant limb first
RECURSIVE LDivStep(_, _, _, _, _)
LDivStep(x, n, i, r, q) ==
    IF i = 0 THEN [q |-> LTrim(q), r |-> r]
    ELSE LET t == r * Base + x[i]
         IN  LDivStep(x, n, i - 1, t % n, <<t \div n>> \o q)

LDivSmall(x, n) == LDivStep(x, n, Len(x), 0, <<>>)

\* floor(x / 2^k), and whether a nonzero bit was shifted out
LShr(x, k) ==
    LET w == k \div LimbBits
        hi == IF w >= Len(x) THEN <<>> ELSE SubSeq(x, w + 1, Len(x))
        qr == LDivSmall(hi, Pow2(k % LimbBits))
    IN  [q |-> qr.q,
         nz |-> qr.r # 0 \/ \E i \in 1..w : i <= Len(x) /\ x[i] # 0]

LBitLen(x) ==
    IF x = <<>> THEN 0
    ELSE (Len(x) - 1) * LimbBits
           + CHOOSE b \in 1..LimbBits :
                 Pow2(b - 1) <= x[Len(x)] /\ x[Len(x)] < Pow2(b)

LOdd(x) == x # <<>> /\ x[1] % 2 = 1

\* a double x >= 0: [m, e] is m * 2^e with m of exactly 53 bits, or zero
Precision == 53
F64Zero == [m |-> <<>>, e |-> 0]

\* round-to-nearest-even of x * 2^e (plus a fraction below the last bit of
\* x when sticky) to 53 significant bits
F64Round(x, sticky, e) ==
    LET k == LBitLen(x) - Precision
    IN  IF x = <<>> THEN F64Zero
        ELSE IF k <= 0 THEN [m |-> LShl(x, -k), e |-> e + k]
        ELSE LET s == LShr(x, k - 1)
                 h == LShr(s.q, 1).q
                 up == LOdd(s.q) /\ (sticky \/ s.nz \/ LOdd(h))
                 m1 == IF up THEN LAdd(h, <<1>>) ELSE h
             IN  IF LBitLen(m1) > Precision
                 THEN [m |-> LShr(m1, 1).q, e |-> e + k + 1]
                 ELSE [m |-> m1, e |-> e + k]

GuardBits == 75

\* the double nearest to the rational n / d, n >= 0, 0 < d < 1024
F64FromRat(n, d) ==
    LET qr == LDivSmall(LShl(LFromInt(n), GuardBits), d)
    IN  F64Round(qr.q, qr.r # 0, -GuardBits)

\* x / n for a double x >= 0 and an integer 0 < n < 1024
F64DivInt(x, n) ==
    LET qr == LDivSmall(LShl(x.m, GuardBits), n)
    IN  F64Round(qr.q, qr.r # 0, x.e - GuardBits)

\* x + y for doubles x, y >= 0
F64Add(x, y) ==
    IF x.m = <<>> THEN y
    ELSE IF y.m = <<>> THEN x
    ELSE LET e == IF x.e < y.e THEN x.e ELSE y.e
         IN  F64Round(LAdd(LShl(x.m, x.e - e), LShl(y.m, y.e - e)), FALSE, e)

RECURSIVE F64SumFrom(_, _, _, _)
F64SumFrom(xs, i, step, acc) ==
    IF i > Len(xs) THEN acc
    ELSE F64SumFrom(xs, i + step, step, F64Add(acc, xs[i]))

\* np.add.reduce over at most 128 doubles: in order below 8 elements, else
\* eight interleaved partial sums combined as a tree, then the remainder
F64PairwiseSum(xs) ==
    LET n == Len(xs)
    IN  IF n < 8 THEN F64SumFrom(xs, 1, 1, F64Zero)
        ELSE LET full == SubSeq(xs, 1, n - (n % 8))
                 r == [j \in 1..8 |-> F64SumFrom(full, j, 8, F64Zero)]
                 res == F64Add(F64Add(F64Add(r[1], r[2]), F64Add(r[3], r[4])),
                               F64Add(F64Add(r[5], r[6]), F64Add(r[7], r[8])))
             IN  F64SumFrom(xs, n - (n % 8) + 1, 1, res)

\* np.mean
F64Mean(xs) == F64DivInt(F64PairwiseSum(xs), Len(xs))

\* ------------------------------------------------------------ sequences
RECURSIVE SumSeq(_)
SumSeq(s) == IF s = <<>> THEN Zero ELSE RAdd(s[1], SumSeq(Tail(s)))

LastK(s, k) == SubSeq(s, Len(s) - k + 1, Len(s))

RatSeq(s) == [i \in 1..Len(s) |-> Rat(s[i])]

\* a deque that starts over when full
DequeAppend_reset(q, x, w) ==
    IF w = 0 THEN q
    ELSE IF Len(q) = w THEN <<x>>
    ELSE Append(q, x)

\* a deque that holds one element more than maxlen
DequeAppend_one_more(q, x, w) ==
    IF w = 0 THEN q
    ELSE IF Len(q) = w + 1 THEN Append(Tail(q), x)
    ELSE Append(q, x)

\* a deque that ignores maxlen
DequeAppend_unbounded(q, x, w) == Append(q, x)

\* a deque that drops the incoming element when full
DequeAppend_keep_old(q, x, w) ==
    IF w = 0 THEN q
    ELSE IF Len(q) = w THEN q
    ELSE Append(q, x)

\* collections.deque(maxlen=w).append(x)
DequeAppend(q, x, w) ==
    IF w = 0 THEN q
    ELSE IF Len(q) = w THEN Append(Tail(q), x)
    ELSE Append(q, x)

\* ------------------------------------------------------------------ state
\* window .. sum_returns are the fields of RealTimeAnalytics; fed is the
\* history of the arguments of update, produced counts the returns appended,
\* last_call and result are the method called last and what it returned,
\* raised tells that it ended in an exception.  The ps_ variables are the
\* locals of process_stream and its program counter.
VARIABLES window, prices, returns, sum_prices, sum_returns,
          fed, produced, last_call, result, raised,
          ps_pc, ps_window, ps_data, ps_i, ps_ma, ps_vol, ps_sharpe, ps_df

acc == <<window, prices, returns, sum_prices, sum_returns>>
ps_vars == <<ps_pc, ps_window, ps_data, ps_i, ps_ma, ps_vol, ps_sharpe, ps_df>>
vars == <<window, prices, returns, sum_prices, sum_returns,
          fed, produced, last_call, result, raised,
          ps_pc, ps_window, ps_data, ps_i, ps_ma, ps_vol, ps_sharpe, ps_df>>

NoFrame == [made |-> FALSE, rows |-> <<>>]

Empty ==
    /\ prices = <<>>
    /\ returns = <<>>
    /\ sum_prices = Zero
    /\ sum_returns = Zero
    /\ fed = <<>>
    /\ produced = 0
    /\ last_call = "init"
    /\ result = NaN
    /\ raised = FALSE

\* process_stream is not running: the methods are called directly
NoStream ==
    /\ ps_pc = "none"
    /\ ps_window = 0
    /\ ps_data = <<>>
    /\ ps_i = 0
    /\ ps_ma = <<>>
    /\ ps_vol = <<>>
    /\ ps_sharpe = <<>>
    /\ ps_df = NoFrame

Init == window \in Windows /\ Empty /\ NoStream

\* the accumulator on a flat price series
InitFlat == window \in FlatWindows /\ Empty /\ NoStream

\* the accumulator with any window deque accepts, fed any price
InitEdge == window \in EdgeWindows /\ Empty /\ NoStream

\* ----------------------------------------------------------------- update
\* an eviction that leaves the running price sum alone
sum_prices_no_evict(total, q, w) == total

\* if len(self.prices) == self.window: self.sum_prices -= self.prices[0]
sum_prices_evict(total, q, w) ==
    IF Len(q) = w THEN RSub(total, q[1]) ELSE total

\* a return taken against the oldest buffered price
simple_return_from_oldest(q) == RSub(RDiv(q[Len(q)], q[1]), One)

\* ret = (self.prices[-1] / self.prices[-2]) - 1
simple_return(q) == RSub(RDiv(q[Len(q)], q[Len(q) - 1]), One)

\* an eviction that subtracts the newest return instead of the oldest
sum_returns_evict_newest(total, q, w) ==
    IF Len(q) = w THEN RSub(total, q[Len(q)]) ELSE total

\* if len(self.returns) == self.window: self.sum_returns -= self.returns[0]
sum_returns_evict(total, q, w) ==
    IF Len(q) = w THEN RSub(total, q[1]) ELSE total

\* self.prices[0] on an empty deque raises IndexError
evict_raises(q, w) == Len(q) = w /\ Len(q) = 0

\* a float divided by 0.0 raises ZeroDivisionError
division_raises(q) == q[Len(q) - 1] = Zero

\* lines 17 to 28 once self.prices[0] is known not to raise
update_body(price) ==
    LET p == Rat(price)
        ps == DequeAppend(prices, p, window)
    IN  /\ prices' = ps
        /\ sum_prices' = RAdd(sum_prices_evict(sum_prices, prices, window), p)
        /\ IF Len(ps) > 1 /\ division_raises(ps)
           THEN /\ raised' = TRUE
                /\ UNCHANGED <<returns, sum_returns, produced>>
           ELSE IF Len(ps) > 1
           THEN LET ret == simple_return(ps)
                IN  /\ returns' = DequeAppend(returns, ret, window)
                    /\ sum_returns' =
                           RAdd(sum_returns_evict(sum_returns, returns, window), ret)
                    /\ produced' = produced + 1
                    /\ raised' = FALSE
           ELSE /\ raised' = FALSE
                /\ UNCHANGED <<returns, sum_returns, produced>>

\* an update that adds the price to the running sum before the eviction test
update_add_first(price) ==
    /\ IF evict_raises(prices, window)
       THEN /\ raised' = TRUE
            /\ sum_prices' = RAdd(sum_prices, Rat(price))
            /\ UNCHANGED <<prices, returns, sum_returns, produced>>
       ELSE update_body(price)
    /\ fed' = Append(fed, price)
    /\ last_call' = "update"
    /\ result' = NaN
    /\ UNCHANGED window

update(price) ==
    /\ IF evict_raises(prices, window)
       THEN /\ raised' = TRUE
            /\ UNCHANGED <<prices, sum_prices, returns, sum_returns, produced>>
       ELSE update_body(price)
    /\ fed' = Append(fed, price)
    /\ last_call' = "update"
    /\ result' = NaN
    /\ UNCHANGED window

\* ---------------------------------------------------------------- queries
np_mean(xs) == RDiv(SumSeq(xs), Rat(Len(xs)))

\* the variance under np.std(xs, ddof=d)
np_var(xs, d) ==
    LET m == np_mean(xs)
        sq == [i \in 1..Len(xs) |-> RMul(RSub(xs[i], m), RSub(xs[i], m))]
    IN  RDiv(SumSeq(sq), Rat(Len(xs) - d))

np_std(xs, d) == Num(One, np_var(xs, d))

np_sqrt(i) == Num(One, Rat(i))

\* a mean that is defined only from the second buffered price on
mean_price_needs_two ==
    IF Len(prices) > 1
    THEN Num(RDiv(sum_prices, Rat(Len(prices))), One)
    ELSE NaN

\* a mean that divides by the capacity instead of the current length
mean_price_by_window ==
    IF Len(prices) # 0
    THEN Num(RDiv(sum_prices, Rat(window)), One)
    ELSE NaN

mean_price ==
    IF Len(prices) # 0
    THEN Num(RDiv(sum_prices, Rat(Len(prices))), One)
    ELSE NaN

\* a volatility from the population standard deviation (ddof=0)
volatility_population ==
    IF Len(returns) < 2
    THEN NaN
    ELSE LET sd == np_std(returns, 0)
             ann == np_sqrt(TradingDays)
         IN  Num(RMul(sd.coef, ann.coef), RMul(sd.rad, ann.rad))

\* a volatility that reports 0.0 instead of NaN on insufficient history
volatility_zero_default ==
    IF Len(returns) < 2
    THEN Num(One, Zero)
    ELSE LET sd == np_std(returns, 1)
             ann == np_sqrt(TradingDays)
         IN  Num(RMul(sd.coef, ann.coef), RMul(sd.rad, ann.rad))

volatility ==
    IF Len(returns) < 2
    THEN NaN
    ELSE LET sd == np_std(returns, 1)
             ann == np_sqrt(TradingDays)
         IN  Num(RMul(sd.coef, ann.coef), RMul(sd.rad, ann.rad))

\* np.std(excess, ddof=1) of a window of equal returns is 0.0 only if
\* np.mean(excess) returns the common element x itself, since the deviations
\* x - mean are then exact.  On a window of zero returns (p / p - 1 is
\* exactly 0.0) every element of excess is -(risk_free / 252); the sum of n
\* copies is rounded at each addition and its quotient by n need not be x.
\* TRUE when binary64 leaves such a nonzero residue.  A window of equal
\* nonzero returns is left to exact arithmetic.
excess_is_flat_residue(risk_free, rs) ==
    /\ \A i \in 1..Len(rs) : rs[i] = Zero
    /\ LET x == F64DivInt(F64FromRat(risk_free[1], risk_free[2]), TradingDays)
       IN  F64Mean([i \in 1..Len(rs) |-> x]) # x

sharpe(risk_free) ==
    IF Len(returns) < 2
    THEN NaN
    ELSE LET daily == RDiv(risk_free, Rat(TradingDays))
             excess == [i \in 1..Len(returns) |-> RSub(returns[i], daily)]
             mean_ret == np_mean(excess)
             vol == np_std(excess, 1)
             ann == np_sqrt(TradingDays)
         IN  IF ~IsZero(vol)
             THEN Num(RDiv(RMul(ann.coef, mean_ret), vol.coef),
                      RDiv(ann.rad, vol.rad))
             ELSE IF excess_is_flat_residue(risk_free, returns)
             THEN OverResidue(RMul(ann.coef, mean_ret), ann.rad)
             ELSE NaN

call_mean_price ==
    /\ last_call' = "mean_price"
    /\ result' = mean_price
    /\ raised' = FALSE
    /\ UNCHANGED <<acc, fed, produced>>

\* a volatility query that consumes the return buffer
call_volatility_draining ==
    /\ last_call' = "volatility"
    /\ result' = volatility
    /\ returns' = <<>>
    /\ raised' = FALSE
    /\ UNCHANGED <<window, prices, sum_prices, sum_returns, fed, produced>>

call_volatility ==
    /\ last_call' = "volatility"
    /\ result' = volatility
    /\ raised' = FALSE
    /\ UNCHANGED <<acc, fed, produced>>

call_sharpe(risk_free) ==
    /\ last_call' = "sharpe"
    /\ result' = sharpe(risk_free)
    /\ raised' = FALSE
    /\ UNCHANGED <<acc, fed, produced>>

Next ==
    /\ \/ \E price \in Prices : Len(fed) < MaxUpdates /\ update(price)
       \/ call_mean_price
       \/ call_volatility
       \/ \E risk_free \in RiskFrees : call_sharpe(risk_free)
    /\ UNCHANGED ps_vars

Spec == Init /\ [][Next]_vars

\* the same operations fed a constant price
NextFlat ==
    /\ \/ \E price \in Prices :
             /\ Len(fed) < MaxFlatUpdates
             /\ fed # <<>> => price = fed[1]
             /\ update(price)
       \/ call_mean_price
       \/ call_volatility
       \/ \E risk_free \in RiskFrees : call_sharpe(risk_free)
    /\ UNCHANGED ps_vars

SpecFlat == InitFlat /\ [][NextFlat]_vars

\* the same operations with window 0 allowed and zero or negative prices
NextEdge ==
    /\ \/ \E price \in EdgePrices : Len(fed) < MaxUpdates /\ update(price)
       \/ call_mean_price
       \/ call_volatility
       \/ \E risk_free \in RiskFrees : call_sharpe(risk_free)
    /\ UNCHANGED ps_vars

SpecEdge == InitEdge /\ [][NextEdge]_vars

\* --------------------------------------------------------- process_stream
\* what data["Close"] can hold: any series of at most MaxStream prices
Series == UNION {[1..n -> Prices] : n \in 0..MaxStream}

InitStream ==
    /\ window = 0
    /\ prices = <<>>
    /\ returns = <<>>
    /\ sum_prices = Zero
    /\ sum_returns = Zero
    /\ fed = <<>>
    /\ produced = 0
    /\ last_call = "none"
    /\ result = NaN
    /\ raised = FALSE
    /\ ps_pc = "start"
    /\ ps_window \in Windows
    /\ ps_data = <<>>
    /\ ps_i = 0
    /\ ps_ma = <<>>
    /\ ps_vol = <<>>
    /\ ps_sharpe = <<>>
    /\ ps_df = NoFrame

\* a download whose empty result is not tested
ps_download_unchecked ==
    /\ ps_pc = "start"
    /\ \E d \in Series :
          /\ ps_data' = d
          /\ ps_pc' = "construct"
    /\ UNCHANGED <<acc, fed, produced, last_call, result, raised>>
    /\ UNCHANGED <<ps_window, ps_i, ps_ma, ps_vol, ps_sharpe, ps_df>>

\* data = yf.download(...); if data.empty: raise SystemExit
ps_download ==
    /\ ps_pc = "start"
    /\ \E d \in Series :
          /\ ps_data' = d
          /\ ps_pc' = IF d = <<>> THEN "exit" ELSE "construct"
    /\ UNCHANGED <<acc, fed, produced, last_call, result, raised>>
    /\ UNCHANGED <<ps_window, ps_i, ps_ma, ps_vol, ps_sharpe, ps_df>>

\* stream = RealTimeAnalytics(window); ma, vol, sharpe = [], [], []
ps_construct ==
    /\ ps_pc = "construct"
    /\ window' = ps_window
    /\ prices' = <<>>
    /\ returns' = <<>>
    /\ sum_prices' = Zero
    /\ sum_returns' = Zero
    /\ last_call' = "init"
    /\ ps_ma' = <<>>
    /\ ps_vol' = <<>>
    /\ ps_sharpe' = <<>>
    /\ ps_pc' = "update"
    /\ UNCHANGED <<fed, produced, result, raised, ps_window, ps_data, ps_i, ps_df>>

\* for p in prices: stream.update(p)
ps_loop_update ==
    /\ ps_pc = "update"
    /\ ps_i < Len(ps_data)
    /\ update(ps_data[ps_i + 1])
    /\ ps_i' = ps_i + 1
    /\ ps_pc' = IF raised' THEN "crash" ELSE "mean"
    /\ UNCHANGED <<ps_window, ps_data, ps_ma, ps_vol, ps_sharpe, ps_df>>

\* ma.append(stream.mean_price())
ps_loop_mean ==
    /\ ps_pc = "mean"
    /\ call_mean_price
    /\ ps_ma' = Append(ps_ma, mean_price)
    /\ ps_pc' = "volatility"
    /\ UNCHANGED <<ps_window, ps_data, ps_i, ps_vol, ps_sharpe, ps_df>>

\* vol.append(stream.volatility())
ps_loop_volatility ==
    /\ ps_pc = "volatility"
    /\ call_volatility
    /\ ps_vol' = Append(ps_vol, volatility)
    /\ ps_pc' = "sharpe"
    /\ UNCHANGED <<ps_window, ps_data, ps_i, ps_ma, ps_sharpe, ps_df>>

\* a loop that keeps only the defined Sharpe ratios
ps_loop_sharpe_skip_nan ==
    /\ ps_pc = "sharpe"
    /\ call_sharpe(DefaultRiskFree)
    /\ ps_sharpe' = IF sharpe(DefaultRiskFree).nan THEN ps_sharpe
                    ELSE Append(ps_sharpe, sharpe(DefaultRiskFree))
    /\ ps_pc' = "update"
    /\ UNCHANGED <<ps_window, ps_data, ps_i, ps_ma, ps_vol, ps_df>>

\* sharpe.append(stream.sharpe())
ps_loop_sharpe ==
    /\ ps_pc = "sharpe"
    /\ call_sharpe(DefaultRiskFree)
    /\ ps_sharpe' = Append(ps_sharpe, sharpe(DefaultRiskFree))
    /\ ps_pc' = "update"
    /\ UNCHANGED <<ps_window, ps_data, ps_i, ps_ma, ps_vol, ps_df>>

\* pd.DataFrame raises ValueError on columns of different lengths
frame_raises == ~(Len(ps_ma) = Len(ps_data) /\ Len(ps_vol) = Len(ps_data)
                  /\ Len(ps_sharpe) = Len(ps_data))

\* df = pd.DataFrame({...}, index=prices.index); ...; return df
ps_frame ==
    /\ ps_pc = "update"
    /\ ps_i = Len(ps_data)
    /\ IF frame_raises
       THEN /\ ps_pc' = "crash"
            /\ UNCHANGED ps_df
       ELSE /\ ps_pc' = "done"
            /\ ps_df' = [made |-> TRUE,
                         rows |-> [k \in 1..Len(ps_data) |->
                                     [Price |-> ps_data[k],
                                      MA |-> ps_ma[k],
                                      Volatility |-> ps_vol[k],
                                      Sharpe |-> ps_sharpe[k]]]]
    /\ UNCHANGED <<acc, fed, produced, last_call, result, raised>>
    /\ UNCHANGED <<ps_window, ps_data, ps_i, ps_ma, ps_vol, ps_sharpe>>

NextStream ==
    \/ ps_download
    \/ ps_construct
    \/ ps_loop_update
    \/ ps_loop_mean
    \/ ps_loop_volatility
    \/ ps_loop_sharpe
    \/ ps_frame

SpecStream == InitStream /\ [][NextStream]_vars

\* ================================================================ claims

\* C1: after any sequence of completed update calls the running sum of
\* prices equals the sum of the prices currently in the price buffer.
C1_PriceSum == sum_prices = SumSeq(prices)

C1_Witness ==
    /\ Len(fed) > window
    /\ prices[1] # Rat(fed[Len(fed) - window])
    /\ sum_prices = SumSeq(prices)

\* C2: after any sequence of completed update calls the running sum of
\* returns equals the sum of the returns currently in the return buffer.
C2_ReturnSum == sum_returns = SumSeq(returns)

C2_Witness ==
    /\ produced > window
    /\ returns[1] # returns[Len(returns)]
    /\ sum_returns = SumSeq(returns)

\* C3: after n updates the price buffer has length min(n, W) and holds
\* exactly the last min(n, W) supplied prices in arrival order.
C3_SlidingWindow ==
    LET k == Min(Len(fed), window)
    IN  /\ Len(prices) = k
        /\ Len(prices) <= window
        /\ prices = RatSeq(LastK(fed, k))

C3_Witness ==
    /\ Len(fed) > window
    /\ window >= 2
    /\ fed[Len(fed) - window] # fed[Len(fed)]
    /\ prices = RatSeq(LastK(fed, window))

\* C4: after n >= 1 updates mean_price() is the arithmetic mean of the last
\* min(n, W) supplied prices.
C4_MeanPrice ==
    Len(fed) >= 1 =>
        mean_price = Num(np_mean(RatSeq(LastK(fed, Min(Len(fed), window)))), One)

C4_Witness ==
    /\ Len(fed) > window
    /\ window >= 2
    /\ fed[Len(fed) - window] # fed[Len(fed)]
    /\ last_call = "mean_price"
    /\ result = Num(np_mean(RatSeq(LastK(fed, window))), One)

\* the simple returns of consecutive supplied prices, in arrival order
AllReturns(f) ==
    IF Len(f) < 2 THEN <<>>
    ELSE [i \in 1..(Len(f) - 1) |-> RSub(RDiv(Rat(f[i + 1]), Rat(f[i])), One)]

\* C5: for every W >= 1 every update after the first appends exactly one
\* return price/previous_price - 1 of the two most recently supplied prices,
\* with oldest-first eviction at capacity W; so the return buffer holds the
\* last min(n - 1, W) returns of consecutive supplied prices.
C5_ReturnPerUpdate ==
    LET all == AllReturns(fed)
    IN  returns = LastK(all, Min(Len(all), window))

\* C6 (as stated): len(returns) <= W in every reachable state, and
\* len(returns) <= len(prices) - 1 whenever the buffers are not both at
\* length W; a buffer at length W stays at length W.
C6_StaysCapped ==
    /\ Len(prices) = window => Len(prices') = window
    /\ Len(returns) = window => Len(returns') = window

C6_LengthsAsStated ==
    /\ [](/\ Len(returns) <= window
          /\ ~(Len(prices) = window /\ Len(returns) = window)
                => Len(returns) <= Len(prices) - 1)
    /\ [][C6_StaysCapped]_vars

\* C6 (amended): len(returns) <= W in every reachable state, and after the
\* first update len(returns) <= len(prices) - 1 whenever the buffers are not
\* both at length W; a buffer at length W stays at length W.
C6_Lengths ==
    /\ [](/\ Len(returns) <= window
          /\ (Len(fed) >= 1 /\ ~(Len(prices) = window /\ Len(returns) = window))
                => Len(returns) <= Len(prices) - 1)
    /\ [][C6_StaysCapped]_vars

C6_Witness ==
    /\ produced > window
    /\ Len(prices) = window
    /\ Len(returns) = window

\* C7 (as stated): while fewer than 2 returns have been produced in total,
\* volatility() and sharpe() are NaN and mean_price() is defined.
C7_UndefinedAsStated ==
    produced < 2 =>
        /\ volatility.nan
        /\ \A rf \in RiskFrees : sharpe(rf).nan
        /\ ~mean_price.nan

\* C7 (amended): while fewer than 2 returns have been produced in total,
\* volatility() and sharpe() are NaN, and mean_price() is defined as soon as
\* one price has been supplied.
C7_Undefined ==
    produced < 2 =>
        /\ volatility.nan
        /\ \A rf \in RiskFrees : sharpe(rf).nan
        /\ Len(fed) >= 1 => ~mean_price.nan

C7_Witness ==
    /\ Len(fed) = 2
    /\ produced = 1
    /\ last_call = "volatility"
    /\ result = NaN
    /\ ~mean_price.nan

\* C8: mean_price() is NaN exactly when the price buffer is empty, which is
\* exactly before the first update.
C8_MeanDefined ==
    /\ mean_price.nan <=> Len(prices) = 0
    /\ Len(prices) = 0 <=> Len(fed) = 0

C8_Witness ==
    /\ Len(fed) = 1
    /\ last_call = "mean_price"
    /\ ~result.nan

\* C9: for a constant price sequence of at least 3 prices and any W >= 2,
\* every return in the buffer is 0, volatility() is the defined value 0 and
\* sharpe() is NaN.
C9_FlatSharpeUndefined ==
    (/\ window >= 2
     /\ Len(fed) >= 3
     /\ \A i \in 1..Len(fed) : fed[i] = fed[1])
    => /\ \A i \in 1..Len(returns) : returns[i] = Zero
       /\ IsZero(volatility)
       /\ sharpe(DefaultRiskFree).nan

\* C10: a call of mean_price(), volatility() or sharpe(risk_free) leaves
\* window, both buffers and both running sums unchanged, and returns the
\* value the query has on that unchanged state.
C10_QueriesPure ==
    [][last_call' \in {"mean_price", "volatility", "sharpe"} =>
          /\ UNCHANGED acc
          /\ last_call' = "mean_price" => result' = mean_price
          /\ last_call' = "volatility" => result' = volatility
          /\ last_call' = "sharpe" =>
                 \E rf \in RiskFrees : result' = sharpe(rf)]_vars

C10_Witness ==
    /\ last_call = "volatility"
    /\ ~result.nan
    /\ Len(returns) >= 2
    /\ sum_returns = SumSeq(returns)

\* C11: process_stream emits one (mean, volatility, sharpe) triple per input
\* price: between two iterations the three lists hold as many entries as
\* prices were fed, the newest entries are the queries on the accumulator as
\* the latest update left it, entries already emitted never change, and the
\* returned table has one row per input price.
C11_BetweenIterations ==
    /\ ps_pc = "update" =>
         /\ Len(ps_ma) = ps_i
         /\ Len(ps_vol) = ps_i
         /\ Len(ps_sharpe) = ps_i
         /\ fed = SubSeq(ps_data, 1, ps_i)
         /\ ps_i >= 1 =>
              /\ ps_ma[ps_i] = mean_price
              /\ ps_vol[ps_i] = volatility
              /\ ps_sharpe[ps_i] = sharpe(DefaultRiskFree)
    /\ ps_pc = "done" =>
         /\ ps_df.made
         /\ Len(ps_df.rows) = Len(ps_data)
         /\ \A k \in 1..Len(ps_data) :
              /\ ps_df.rows[k].Price = ps_data[k]
              /\ ps_df.rows[k].MA = ps_ma[k]
              /\ ps_df.rows[k].Volatility = ps_vol[k]
              /\ ps_df.rows[k].Sharpe = ps_sharpe[k]
    /\ ps_pc \in {"start", "construct", "exit"} => ~ps_df.made

C11_Emitted ==
    /\ Len(ps_ma') >= Len(ps_ma)
    /\ Len(ps_vol') >= Len(ps_vol)
    /\ Len(ps_sharpe') >= Len(ps_sharpe)
    /\ \A k \in 1..Len(ps_ma) : ps_ma'[k] = ps_ma[k]
    /\ \A k \in 1..Len(ps_vol) : ps_vol'[k] = ps_vol[k]
    /\ \A k \in 1..Len(ps_sharpe) : ps_sharpe'[k] = ps_sharpe[k]

C11_Triples == [](C11_BetweenIterations) /\ [][C11_Emitted]_vars

C11_Witness ==
    /\ ps_pc = "done"
    /\ Len(ps_df.rows) >= 3
    /\ ps_df.rows[1].Sharpe.nan
    /\ ~ps_df.rows[3].Sharpe.nan

\* C12: on an empty price series process_stream stops with SystemExit before
\* the accumulator is constructed: no update, no query, no list entry and no
\* table.
C12_EmptyAborts ==
    (ps_pc # "start" /\ ps_data = <<>>) =>
        /\ ps_pc = "exit"
        /\ last_call = "none"
        /\ window = 0
        /\ fed = <<>>
        /\ produced = 0
        /\ ps_i = 0
        /\ ps_ma = <<>>
        /\ ps_vol = <<>>
        /\ ps_sharpe = <<>>
        /\ ~ps_df.made

C12_Witness ==
    /\ ps_pc = "exit"
    /\ ps_data = <<>>
    /\ last_call = "none"

\* C13: update never raises: whenever an accumulator with W >= 1 has just
\* been updated no exception is pending, and when the previous price was zero
\* or negative the newest return is the literal price / previous - 1.
C13_NeverRaises ==
    (window >= 1 /\ last_call = "update") =>
        /\ ~raised
        /\ (window >= 2 /\ Len(fed) >= 2 /\ fed[Len(fed) - 1] <= 0) =>
              /\ returns # <<>>
              /\ returns[Len(returns)] =
                    RSub(RDiv(Rat(fed[Len(fed)]), Rat(fed[Len(fed) - 1])), One)

\* C14: for W >= 2 and n > W updates the return buffer holds the returns of
\* the last W consecutive pairs of supplied prices in arrival order; its
\* oldest return is taken against the price supplied W updates ago, which the
\* price buffer has already dropped; volatility is defined, and sharpe is
\* defined when the retained returns are not all equal.
C14_SpansEvictedBase ==
    (window >= 2 /\ Len(fed) > window) =>
        LET n == Len(fed)
        IN  /\ Len(returns) = window
            /\ returns = LastK(AllReturns(fed), window)
            /\ returns[1] =
                  RSub(RDiv(Rat(fed[n - window + 1]), Rat(fed[n - window])), One)
            /\ prices = RatSeq(SubSeq(fed, n - window + 1, n))
            /\ ~volatility.nan
            /\ (\E i \in 1..window : returns[i] # returns[1]) =>
                  ~sharpe(DefaultRiskFree).nan

C14_Witness ==
    /\ window = 3
    /\ Len(fed) = 4
    /\ fed[1] < fed[2]
    /\ fed[3] < fed[2]
    /\ fed[3] < fed[4]
    /\ Len(returns) = 3
    /\ Len(prices) = 3
    /\ returns[1] = RSub(RDiv(Rat(fed[2]), Rat(fed[1])), One)
    /\ ~volatility.nan
    /\ ~sharpe(DefaultRiskFree).nan

\* C15: with n >= 2 buffered returns volatility() is defined and its square
\* is 252 times the Bessel-corrected sample variance of the buffered returns,
\* (sum of r^2 - (sum of r)^2 / n) / (n - 1).
SquaredReturns ==
    [i \in 1..Len(returns) |-> RMul(returns[i], returns[i])]

C15_BesselVolatility ==
    Len(returns) >= 2 =>
        LET n == Len(returns)
            total == SumSeq(returns)
            centred == RSub(SumSeq(SquaredReturns),
                            RDiv(RMul(total, total), Rat(n)))
            v == volatility
        IN  /\ ~v.nan
            /\ ~v.resid
            /\ RMul(RMul(v.coef, v.coef), v.rad) =
                  RMul(Rat(252), RDiv(centred, Rat(n - 1)))

C15_Witness ==
    /\ Len(returns) >= 3
    /\ returns[1] # returns[2]
    /\ last_call = "volatility"
    /\ result = volatility
    /\ ~result.nan
    /\ ~IsZero(result)

\* C16: with W = 1 no return is ever recorded: in every state the return
\* buffer is empty, sum_returns is 0, and volatility() and sharpe() are
\* undefined for every risk-free rate.
C16_WindowOneNoReturns ==
    window = 1 =>
        /\ returns = <<>>
        /\ sum_returns = Zero
        /\ produced = 0
        /\ Len(prices) <= 1
        /\ volatility.nan
        /\ \A risk_free \in RiskFrees : sharpe(risk_free).nan
        /\ last_call \in {"volatility", "sharpe"} => result.nan

C16_Witness ==
    /\ window = 1
    /\ Len(fed) >= 3
    /\ fed[Len(fed)] # fed[Len(fed) - 1]
    /\ last_call = "sharpe"
    /\ result.nan
    /\ returns = <<>>

\* C17: whenever at least 2 returns are buffered, for every risk-free rate,
\* sharpe(risk_free) is undefined if and only if volatility() is 0.
C17_GuardIgnoresRiskFree ==
    Len(returns) >= 2 =>
        \A risk_free \in RiskFrees :
            sharpe(risk_free).nan <=> IsZero(volatility)

\* C18: buffer lengths never decrease: every step leaves len(prices) and
\* len(returns) at least as large as before, an update grows len(prices) by
\* exactly one while it is below W, and a buffer of length W has length W
\* after every step.
C18_Step ==
    /\ Len(prices') >= Len(prices)
    /\ Len(returns') >= Len(returns)
    /\ (fed' # fed /\ Len(prices) < window) => Len(prices') = Len(prices) + 1
    /\ (fed' # fed /\ Len(prices) = window) => Len(prices') = window
    /\ (fed' = fed) => (Len(prices') = Len(prices) /\ Len(returns') = Len(returns))
    /\ Len(returns') <= Len(returns) + 1

C18_LengthsMonotone == [][C18_Step]_vars

C18_Witness ==
    /\ window = 2
    /\ Len(fed) = 4
    /\ Len(prices) = window
    /\ Len(returns) = window
    /\ last_call = "update"

\* C19: an accumulator constructed with W = 0 exists, and every update on it
\* raises before any field is changed: the buffers stay empty and the sums
\* stay 0.
C19_WindowZeroRaises ==
    window = 0 =>
        /\ prices = <<>>
        /\ returns = <<>>
        /\ sum_prices = Zero
        /\ sum_returns = Zero
        /\ produced = 0
        /\ last_call = "update" => raised
        /\ last_call = "init" => (~raised /\ fed = <<>>)

C19_Witness ==
    /\ window = 0
    /\ last_call = "update"
    /\ raised
    /\ Len(fed) >= 1
    /\ fed[1] # 0
    /\ prices = <<>>
    /\ sum_prices = Zero

====
